---- MODULE Spec2Model ----
(***************************************************************************)
(* A model of luminance's dynamic rendering pipeline (src/pipeline.rs) and *)
(* of its GPU render state value (luminance/src/render_state.rs).          *)
(*                                                                         *)
(*   Spec            one execution of Pipeline::run against a GL device    *)
(*   SpecRenderState the RenderState builder                               *)
(*   SpecTranslate   the two enum-to-GL-constant translation functions     *)
(***************************************************************************)
EXTENDS Integers, Sequences, FiniteSets, TLC

VARIABLES
  \* the fields of the Pipeline that is run
  framebuffer, clear_color, texture_set, buffer_set, shading_commands,
  \* the position of Pipeline::run: code location and loop cursors
  pc, unit, index, si, ri, ti,
  \* the GL device: its current state and the calls it has received
  gl, calls,
  \* a RenderState value and the operation that produced it
  state, last,
  \* the translations computed so far: sets of <<variant, GL constant>>
  equations, factors

pvars == <<framebuffer, clear_color, texture_set, buffer_set, shading_commands,
           pc, unit, index, si, ri, ti, gl, calls>>
rvars == <<state, last>>
tvars == <<equations, factors>>
vars == <<pvars, rvars, tvars>>

(***************************************************************************)
(* Bounds.                                                                 *)
(***************************************************************************)
\* A pipeline holds at most this many objects in total: textures, buffers,
\* shading commands, render commands and drawables.
MaxObjects == 5

(***************************************************************************)
(* Option<T>: None and Some(x).                                            *)
(***************************************************************************)
None == << >>
Some(x) == <<x>>
Option(S) == {None} \cup {Some(x) : x \in S}

(***************************************************************************)
(* blending::Equation and blending::Factor, and their GL translation.      *)
(***************************************************************************)
Equation == {"Additive", "Subtract", "ReverseSubtract", "Min", "Max"}

Factor == {"One", "Zero", "SrcColor", "SrcColorComplement", "DestColor",
           "DestColorComplement", "SrcAlpha", "SrcAlphaComplement", "DstAlpha",
           "DstAlphaComplement", "SrcAlphaSaturate"}

opengl_blending_equation(equation) ==
  CASE equation = "Additive" -> "FUNC_ADD"
    [] equation = "Subtract" -> "FUNC_SUBTRACT"
    [] equation = "ReverseSubtract" -> "FUNC_REVERSE_SUBTRACT"
    [] equation = "Min" -> "MIN"
    [] equation = "Max" -> "MAX"

\* opengl_blending_factor with DestColor given the constant of DstAlpha.
opengl_blending_factor_Slip(factor) ==
  CASE factor = "One" -> "ONE"
    [] factor = "Zero" -> "ZERO"
    [] factor = "SrcColor" -> "SRC_COLOR"
    [] factor = "SrcColorComplement" -> "ONE_MINUS_SRC_COLOR"
    [] factor = "DestColor" -> "DST_ALPHA"
    [] factor = "DestColorComplement" -> "ONE_MINUS_DST_COLOR"
    [] factor = "SrcAlpha" -> "SRC_ALPHA"
    [] factor = "SrcAlphaComplement" -> "ONE_MINUS_SRC_ALPHA"
    [] factor = "DstAlpha" -> "DST_ALPHA"
    [] factor = "DstAlphaComplement" -> "ONE_MINUS_DST_ALPHA"
    [] factor = "SrcAlphaSaturate" -> "SRC_ALPHA_SATURATE"

opengl_blending_factor(factor) ==
  CASE factor = "One" -> "ONE"
    [] factor = "Zero" -> "ZERO"
    [] factor = "SrcColor" -> "SRC_COLOR"
    [] factor = "SrcColorComplement" -> "ONE_MINUS_SRC_COLOR"
    [] factor = "DestColor" -> "DST_COLOR"
    [] factor = "DestColorComplement" -> "ONE_MINUS_DST_COLOR"
    [] factor = "SrcAlpha" -> "SRC_ALPHA"
    [] factor = "SrcAlphaComplement" -> "ONE_MINUS_SRC_ALPHA"
    [] factor = "DstAlpha" -> "DST_ALPHA"
    [] factor = "DstAlphaComplement" -> "ONE_MINUS_DST_ALPHA"
    [] factor = "SrcAlphaSaturate" -> "SRC_ALPHA_SATURATE"

(***************************************************************************)
(* The objects a Pipeline borrows.  Each is known to the pipeline by its   *)
(* handle (and target, width, height).                                     *)
(***************************************************************************)
Framebuffers == {[handle |-> 7, width |-> 800, height |-> 600]}

ClearColors == {<<0, 1, 2, 3>>}

Textures == {[handle |-> 11, target |-> "TEXTURE_2D"],
             [handle |-> 12, target |-> "TEXTURE_CUBE_MAP"]}

Buffers == {[handle |-> 21], [handle |-> 22]}

Programs == {[handle |-> 31], [handle |-> 32]}

Tessellations == {[vao |-> 41], [vao |-> 42]}

(***************************************************************************)
(* Pipe, RenderCommand, ShadingCommand.                                    *)
(***************************************************************************)
\* Pipe::new.  The closure is opaque: running it is the call "update_program".
Pipe(next) == [update_program |-> "Fn", next |-> next]

\* The fixed-function settings and draw parameters of a render command.
RenderSettings ==
  {[blending |-> None, depth_test |-> TRUE,
    instances |-> 1, rasterization_size |-> None],
   [blending |-> Some(<<"Additive", "One", "Zero">>), depth_test |-> FALSE,
    instances |-> 2, rasterization_size |-> None],
   [blending |-> Some(<<"ReverseSubtract", "SrcAlpha", "SrcAlphaComplement">>),
    depth_test |-> TRUE, instances |-> 3, rasterization_size |-> Some(2)]}

\* RenderCommand::new
RenderCommand(blending, depth_test, tessellations, instances, rasterization_size) ==
  [blending |-> blending, depth_test |-> depth_test, tessellations |-> tessellations,
   instances |-> instances, rasterization_size |-> rasterization_size]

\* ShadingCommand::new
ShadingCommand(program, render_commands) ==
  [program |-> program, render_commands |-> render_commands]

\* All lists of n elements of S.
Lists(S, n) == [1..n -> S]

\* The render commands of n objects: the command and its n - 1 drawables.
RenderCommands(n) ==
  {RenderCommand(s.blending, s.depth_test, t, s.instances, s.rasterization_size) :
     s \in RenderSettings,
     t \in Lists({Pipe(x) : x \in Tessellations}, n - 1)}

\* The lists of piped render commands of n objects in total.
RECURSIVE RenderCommandLists(_)
RenderCommandLists(n) ==
  IF n = 0 THEN {<< >>}
  ELSE UNION {{<<Pipe(c)>> \o rest : c \in RenderCommands(a),
                                     rest \in RenderCommandLists(n - a)} :
              a \in 1..n}

\* The shading commands of n objects: the command and its n - 1 descendants.
ShadingCommands(n) ==
  {ShadingCommand(p, r) : p \in Programs, r \in RenderCommandLists(n - 1)}

\* The lists of piped shading commands of n objects in total.
RECURSIVE ShadingCommandLists(_)
ShadingCommandLists(n) ==
  IF n = 0 THEN {<< >>}
  ELSE UNION {{<<Pipe(c)>> \o rest : c \in ShadingCommands(a),
                                     rest \in ShadingCommandLists(n - a)} :
              a \in 1..n}

(***************************************************************************)
(* The GL device.                                                          *)
(***************************************************************************)
\* The state of a fresh GL context.
GlInit ==
  [framebuffer |-> 0, viewport |-> <<0, 0, 0, 0>>, clear_color |-> <<0, 0, 0, 0>>,
   color_buffer |-> None, depth_buffer |-> None, active_texture |-> 0, textures |-> {}, uniform_buffers |-> {},
   program |-> 0, blend |-> FALSE, blend_equation |-> "FUNC_ADD",
   blend_func |-> <<"ONE", "ZERO">>, depth_test |-> FALSE]

\* The state a context is left in by earlier rendering.
GlUsed ==
  [framebuffer |-> 9, viewport |-> <<0, 0, 16, 16>>, clear_color |-> <<3, 3, 3, 3>>,
   color_buffer |-> None, depth_buffer |-> None, active_texture |-> 4,
   textures |-> {<<4, "TEXTURE_2D", 19>>}, uniform_buffers |-> {<<4, 29>>},
   program |-> 32, blend |-> TRUE, blend_equation |-> "MAX",
   blend_func |-> <<"SRC_ALPHA", "ONE">>, depth_test |-> TRUE]

\* The states of the context a pipeline may be run in.
Devices == {GlInit, GlUsed}

\* A call received by the device or by a closure, made at loop position path.
Call(op, path, args) == [op |-> op, path |-> path, args |-> args]

\* The piped commands the cursors point at.
ShadingPipe(i) == shading_commands[i]
RenderPipe(i, j) == ShadingPipe(i).next.render_commands[j]
TessPipe(i, j, k) == RenderPipe(i, j).next.tessellations[k]

(***************************************************************************)
(* The loops of run, run_shading_command and run_render_command: where     *)
(* control goes when a loop is at a given element.                         *)
(***************************************************************************)
At(p, i, j, k) == [pc |-> p, si |-> i, ri |-> j, ti |-> k]

\* for piped_shading_cmd in &self.shading_commands
ShadingLoop(i) ==
  IF i <= Len(shading_commands) THEN At("use_program", i, 0, 0)
  ELSE At("done", 0, 0, 0)

\* for piped_render_cmd in &shading_cmd.render_commands
RenderLoop(i, j) ==
  IF j <= Len(ShadingPipe(i).next.render_commands) THEN At("render_update", i, j, 0)
  ELSE ShadingLoop(i + 1)

\* TessLoop stopping one drawable early.
TessLoop_SkipLast(i, j, k) ==
  IF k < Len(RenderPipe(i, j).next.tessellations) THEN At("tess_update", i, j, k)
  ELSE RenderLoop(i, j + 1)

\* for piped_tess in &render_cmd.tessellations
TessLoop(i, j, k) ==
  IF k <= Len(RenderPipe(i, j).next.tessellations) THEN At("tess_update", i, j, k)
  ELSE RenderLoop(i, j + 1)

\* for (index, buf) in self.buffer_set.iter().enumerate()
BufferLoop(n) ==
  IF n < Len(buffer_set) THEN At("bind_buffer", 0, 0, 0) ELSE ShadingLoop(1)

\* for (unit, tex) in self.texture_set.iter().enumerate()
TextureLoop(n) ==
  IF n < Len(texture_set) THEN At("bind_texture", 0, 0, 0) ELSE BufferLoop(0)

Goto(at) == pc' = at.pc /\ si' = at.si /\ ri' = at.ri /\ ti' = at.ti

Pipeline == <<framebuffer, clear_color, texture_set, buffer_set, shading_commands>>

(***************************************************************************)
(* Pipeline::run, one action per device call or closure call.              *)
(***************************************************************************)
BindFramebuffer ==
  /\ pc = "run"
  /\ gl' = [gl EXCEPT !.framebuffer = framebuffer.handle]
  /\ calls' = Append(calls, Call("BindFramebuffer", << >>,
                                 <<"FRAMEBUFFER", framebuffer.handle>>))
  /\ pc' = "viewport"
  /\ UNCHANGED <<rvars, tvars, Pipeline, unit, index, si, ri, ti>>

\* Viewport with width and height exchanged.
Viewport_Swapped ==
  /\ pc = "viewport"
  /\ gl' = [gl EXCEPT !.viewport = <<0, 0, framebuffer.height, framebuffer.width>>]
  /\ calls' = Append(calls, Call("Viewport", << >>,
                                 <<0, 0, framebuffer.height, framebuffer.width>>))
  /\ pc' = "clear_color"
  /\ UNCHANGED <<rvars, tvars, Pipeline, unit, index, si, ri, ti>>

Viewport ==
  /\ pc = "viewport"
  /\ gl' = [gl EXCEPT !.viewport = <<0, 0, framebuffer.width, framebuffer.height>>]
  /\ calls' = Append(calls, Call("Viewport", << >>,
                                 <<0, 0, framebuffer.width, framebuffer.height>>))
  /\ pc' = "clear_color"
  /\ UNCHANGED <<rvars, tvars, Pipeline, unit, index, si, ri, ti>>

ClearColor ==
  /\ pc = "clear_color"
  /\ gl' = [gl EXCEPT !.clear_color = <<clear_color[1], clear_color[2],
                                        clear_color[3], clear_color[4]>>]
  /\ calls' = Append(calls, Call("ClearColor", << >>,
                                 <<clear_color[1], clear_color[2],
                                   clear_color[3], clear_color[4]>>))
  /\ pc' = "clear"
  /\ UNCHANGED <<rvars, tvars, Pipeline, unit, index, si, ri, ti>>

Clear ==
  /\ pc = "clear"
  /\ gl' = [gl EXCEPT !.color_buffer = Some(gl.clear_color),
                       !.depth_buffer = Some("cleared")]
  /\ calls' = Append(calls, Call("Clear", << >>,
                                 {"COLOR_BUFFER_BIT", "DEPTH_BUFFER_BIT"}))
  /\ unit' = 0
  /\ Goto(TextureLoop(0))
  /\ UNCHANGED <<rvars, tvars, Pipeline, index>>

\* One iteration of the texture loop: ActiveTexture, then BindTexture.
BindTexture ==
  /\ pc = "bind_texture"
  /\ LET tex == texture_set[unit + 1]
     IN /\ gl' = [gl EXCEPT
                    !.active_texture = unit,
                    !.textures = {b \in @ : ~(b[1] = unit /\ b[2] = tex.target)}
                                 \cup {<<unit, tex.target, tex.handle>>}]
        /\ calls' = calls \o <<Call("ActiveTexture", << >>, <<"TEXTURE0", unit>>),
                               Call("BindTexture", << >>, <<tex.target, tex.handle>>)>>
  /\ unit' = unit + 1
  /\ Goto(TextureLoop(unit + 1))
  /\ UNCHANGED <<rvars, tvars, Pipeline, index>>

\* BindBufferBase counting the binding indices from 1.
BindBufferBase_OneBased ==
  /\ pc = "bind_buffer"
  /\ LET buf == buffer_set[index + 1]
     IN /\ gl' = [gl EXCEPT
                    !.uniform_buffers = {b \in @ : b[1] # index + 1}
                                        \cup {<<index + 1, buf.handle>>}]
        /\ calls' = Append(calls, Call("BindBufferBase", << >>,
                                       <<"UNIFORM_BUFFER", index + 1, buf.handle>>))
  /\ index' = index + 1
  /\ Goto(BufferLoop(index + 1))
  /\ UNCHANGED <<rvars, tvars, Pipeline, unit>>

\* One iteration of the buffer loop.
BindBufferBase ==
  /\ pc = "bind_buffer"
  /\ LET buf == buffer_set[index + 1]
     IN /\ gl' = [gl EXCEPT
                    !.uniform_buffers = {b \in @ : b[1] # index}
                                        \cup {<<index, buf.handle>>}]
        /\ calls' = Append(calls, Call("BindBufferBase", << >>,
                                       <<"UNIFORM_BUFFER", index, buf.handle>>))
  /\ index' = index + 1
  /\ Goto(BufferLoop(index + 1))
  /\ UNCHANGED <<rvars, tvars, Pipeline, unit>>

(***************************************************************************)
(* Pipeline::run_shading_command                                           *)
(***************************************************************************)
\* UseProgram binding a program only when none is bound.
UseProgram_OnlyIfUnbound ==
  /\ pc = "use_program"
  /\ LET shading_cmd == ShadingPipe(si).next
     IN /\ gl' = IF gl.program = 0
                 THEN [gl EXCEPT !.program = shading_cmd.program.handle]
                 ELSE gl
        /\ calls' = Append(calls, Call("UseProgram", <<si>>,
                                       <<shading_cmd.program.handle>>))
  /\ pc' = "shading_update"
  /\ UNCHANGED <<rvars, tvars, Pipeline, unit, index, si, ri, ti>>

UseProgram ==
  /\ pc = "use_program"
  /\ LET shading_cmd == ShadingPipe(si).next
     IN /\ gl' = [gl EXCEPT !.program = shading_cmd.program.handle]
        /\ calls' = Append(calls, Call("UseProgram", <<si>>,
                                       <<shading_cmd.program.handle>>))
  /\ pc' = "shading_update"
  /\ UNCHANGED <<rvars, tvars, Pipeline, unit, index, si, ri, ti>>

\* update_program(&shading_cmd.program)
ShadingUpdate ==
  /\ pc = "shading_update"
  /\ LET shading_cmd == ShadingPipe(si).next
     IN calls' = Append(calls, Call("update_program", <<si>>,
                                    <<shading_cmd.program.handle>>))
  /\ Goto(RenderLoop(si, 1))
  /\ UNCHANGED <<rvars, tvars, Pipeline, unit, index, gl>>

(***************************************************************************)
(* Pipeline::run_render_command                                            *)
(***************************************************************************)
\* The program run_shading_command passes down.
ProgramOf(i) == ShadingPipe(i).next.program

\* update_program(program)
RenderUpdate ==
  /\ pc = "render_update"
  /\ calls' = Append(calls, Call("update_program", <<si, ri>>,
                                 <<ProgramOf(si).handle>>))
  /\ pc' = "set_blending"
  /\ UNCHANGED <<rvars, tvars, Pipeline, unit, index, si, ri, ti, gl>>

\* set_blending leaving blending as it is when the command has none.
set_blending_NoDisable(device, blending) ==
  IF blending # None
  THEN [device EXCEPT
          !.blend = TRUE,
          !.blend_equation = opengl_blending_equation(blending[1][1]),
          !.blend_func = <<opengl_blending_factor(blending[1][2]),
                           opengl_blending_factor(blending[1][3])>>]
  ELSE device

\* The device after set_blending(blending).
set_blending(device, blending) ==
  IF blending # None
  THEN LET equation == blending[1][1]
           src_factor == blending[1][2]
           dest_factor == blending[1][3]
       IN [device EXCEPT
             !.blend = TRUE,
             !.blend_equation = opengl_blending_equation(equation),
             !.blend_func = <<opengl_blending_factor(src_factor),
                              opengl_blending_factor(dest_factor)>>]
  ELSE [device EXCEPT !.blend = FALSE]

\* The device after set_depth_test(test).
set_depth_test(device, test) ==
  IF test THEN [device EXCEPT !.depth_test = TRUE]
  ELSE [device EXCEPT !.depth_test = FALSE]

SetBlending ==
  /\ pc = "set_blending"
  /\ LET render_cmd == RenderPipe(si, ri).next
     IN /\ gl' = set_blending(gl, render_cmd.blending)
        /\ calls' = Append(calls, Call("set_blending", <<si, ri>>,
                                       <<render_cmd.blending>>))
  /\ pc' = "set_depth_test"
  /\ UNCHANGED <<rvars, tvars, Pipeline, unit, index, si, ri, ti>>

SetDepthTest ==
  /\ pc = "set_depth_test"
  /\ LET render_cmd == RenderPipe(si, ri).next
     IN /\ gl' = set_depth_test(gl, render_cmd.depth_test)
        /\ calls' = Append(calls, Call("set_depth_test", <<si, ri>>,
                                       <<render_cmd.depth_test>>))
  /\ Goto(TessLoop(si, ri, 1))
  /\ UNCHANGED <<rvars, tvars, Pipeline, unit, index>>

\* TessUpdate without the call of the closure.
TessUpdate_Skipped ==
  /\ pc = "tess_update"
  /\ pc' = "render"
  /\ UNCHANGED <<rvars, tvars, Pipeline, unit, index, si, ri, ti, gl, calls>>

\* tess_update_program(program)
TessUpdate ==
  /\ pc = "tess_update"
  /\ calls' = Append(calls, Call("update_program", <<si, ri, ti>>,
                                 <<ProgramOf(si).handle>>))
  /\ pc' = "render"
  /\ UNCHANGED <<rvars, tvars, Pipeline, unit, index, si, ri, ti, gl>>

\* tess.render(render_cmd.rasterization_size, render_cmd.instances)
TessRender ==
  /\ pc = "render"
  /\ LET render_cmd == RenderPipe(si, ri).next
         tess == TessPipe(si, ri, ti).next
     IN calls' = Append(calls, Call("render", <<si, ri, ti>>,
                                    <<tess, render_cmd.rasterization_size,
                                      render_cmd.instances>>))
  /\ Goto(TessLoop(si, ri, ti + 1))
  /\ UNCHANGED <<rvars, tvars, Pipeline, unit, index, gl>>

(***************************************************************************)
(* One run of a pipeline.                                                  *)
(***************************************************************************)
\* Pipeline::new: the pipelines of at most MaxObjects objects.
Pipelines ==
  UNION {UNION {UNION {[framebuffer : Framebuffers, clear_color : ClearColors,
                        texture_set : Lists(Textures, t),
                        buffer_set : Lists(Buffers, b),
                        shading_commands : ShadingCommandLists(n)] :
                       n \in 0..(MaxObjects - t - b)} :
                b \in 0..(MaxObjects - t)} :
         t \in 0..MaxObjects}

InitPipeline ==
  /\ \E p \in Pipelines :
       /\ framebuffer = p.framebuffer
       /\ clear_color = p.clear_color
       /\ texture_set = p.texture_set
       /\ buffer_set = p.buffer_set
       /\ shading_commands = p.shading_commands
  /\ pc = "run" /\ unit = 0 /\ index = 0 /\ si = 0 /\ ri = 0 /\ ti = 0
  /\ gl \in Devices
  /\ calls = << >>

\* No pipeline is run.
IdlePipeline ==
  /\ framebuffer = None /\ clear_color = None /\ texture_set = << >>
  /\ buffer_set = << >> /\ shading_commands = << >>
  /\ pc = "idle" /\ unit = 0 /\ index = 0 /\ si = 0 /\ ri = 0 /\ ti = 0
  /\ gl = GlInit
  /\ calls = << >>

Next ==
  \/ BindFramebuffer
  \/ Viewport
  \/ ClearColor
  \/ Clear
  \/ BindTexture
  \/ BindBufferBase
  \/ UseProgram
  \/ ShadingUpdate
  \/ RenderUpdate
  \/ SetBlending
  \/ SetDepthTest
  \/ TessUpdate
  \/ TessRender

(***************************************************************************)
(* RenderState (luminance/src/render_state.rs).                            *)
(***************************************************************************)
\* blending::Blending values used as arguments.
Blending ==
  {[equation |-> "Additive", src |-> "SrcAlpha", dst |-> "SrcAlphaComplement"],
   [equation |-> "Max", src |-> "One", dst |-> "Zero"]}

DepthComparison == {"Never", "Always", "Less", "Greater"}

DepthWrite == {"On", "Off"}

FaceCulling == {[order |-> "CCW", mode |-> "Back"], [order |-> "CW", mode |-> "Front"]}

\* BlendingMode::Separate { rgb, alpha }
Separate(rgb, alpha) == [variant |-> "Separate", rgb |-> rgb, alpha |-> alpha]

\* impl From<Blending> for BlendingMode, the x.into() of set_blending.
BlendingInto(x) == [variant |-> "Combined", blending |-> x]

\* RenderState::default with the depth test off.
RenderStateDefault_NoDepthTest ==
  [blending |-> None, depth_test |-> None,
   depth_write |-> "On", face_culling |-> None]

RenderStateDefault ==
  [blending |-> None, depth_test |-> Some("Less"),
   depth_write |-> "On", face_culling |-> None]

\* The mutators take self by value and return the new value.
RS_set_blending(self, blending) ==
  [self EXCEPT !.blending = IF blending = None THEN None
                             ELSE Some(BlendingInto(blending[1]))]

\* set_blending_separate falling back to set_blending for equal arguments.
RS_set_blending_separate_Collapsed(self, blending_rgb, blending_alpha) ==
  IF blending_rgb = blending_alpha
  THEN RS_set_blending(self, Some(blending_rgb))
  ELSE [self EXCEPT !.blending = Some([variant |-> "Separate", rgb |-> blending_rgb,
                                       alpha |-> blending_alpha])]

RS_set_blending_separate(self, blending_rgb, blending_alpha) ==
  [self EXCEPT !.blending = Some(Separate(blending_rgb, blending_alpha))]

RS_set_depth_test(self, depth_test) ==
  [self EXCEPT !.depth_test = depth_test]

RS_set_depth_write(self, depth_write) ==
  [self EXCEPT !.depth_write = depth_write]

\* set_face_culling filling the other fields from the default state.
RS_set_face_culling_FromDefault(self, face_culling) ==
  [RenderStateDefault EXCEPT !.face_culling = face_culling]

RS_set_face_culling(self, face_culling) ==
  [self EXCEPT !.face_culling = face_culling]

\* The accessors.
RS_blending(self) == self.blending
RS_depth_test(self) == self.depth_test
RS_depth_write(self) == self.depth_write
RS_face_culling(self) == self.face_culling

\* The record of an operation: its name, its argument and the value it took.
Op(name, arg, self) == [op |-> name, arg |-> arg, self |-> self]

Default ==
  /\ state' = RenderStateDefault
  /\ last' = Op("default", None, state)
  /\ UNCHANGED <<pvars, tvars>>

SetBlendingState ==
  \E blending \in Option(Blending) :
    /\ state' = RS_set_blending(state, blending)
    /\ last' = Op("set_blending", blending, state)
    /\ UNCHANGED <<pvars, tvars>>

SetBlendingSeparate ==
  \E blending_rgb \in Blending, blending_alpha \in Blending :
    /\ state' = RS_set_blending_separate(state, blending_rgb, blending_alpha)
    /\ last' = Op("set_blending_separate", <<blending_rgb, blending_alpha>>, state)
    /\ UNCHANGED <<pvars, tvars>>

SetDepthTestState ==
  \E depth_test \in Option(DepthComparison) :
    /\ state' = RS_set_depth_test(state, depth_test)
    /\ last' = Op("set_depth_test", depth_test, state)
    /\ UNCHANGED <<pvars, tvars>>

SetDepthWrite ==
  \E depth_write \in DepthWrite :
    /\ state' = RS_set_depth_write(state, depth_write)
    /\ last' = Op("set_depth_write", depth_write, state)
    /\ UNCHANGED <<pvars, tvars>>

SetFaceCulling ==
  \E face_culling \in Option(FaceCulling) :
    /\ state' = RS_set_face_culling(state, face_culling)
    /\ last' = Op("set_face_culling", face_culling, state)
    /\ UNCHANGED <<pvars, tvars>>

InitRenderState ==
  /\ state = RenderStateDefault
  /\ last = Op("default", None, RenderStateDefault)

NextRS ==
  \/ Default
  \/ SetBlendingState
  \/ SetBlendingSeparate
  \/ SetDepthTestState
  \/ SetDepthWrite
  \/ SetFaceCulling

(***************************************************************************)
(* The translation functions, applied to one variant after another.        *)
(***************************************************************************)
TranslateEquation ==
  \E equation \in Equation :
    /\ equations' = equations \cup {<<equation, opengl_blending_equation(equation)>>}
    /\ UNCHANGED <<factors, pvars, rvars>>

TranslateFactor ==
  \E factor \in Factor :
    /\ factors' = factors \cup {<<factor, opengl_blending_factor(factor)>>}
    /\ UNCHANGED <<equations, pvars, rvars>>

InitTranslate == equations = {} /\ factors = {}

NextT ==
  \/ TranslateEquation
  \/ TranslateFactor

(***************************************************************************)
(* The specifications.                                                     *)
(***************************************************************************)
Init == InitPipeline /\ InitRenderState /\ InitTranslate

Spec == Init /\ [][Next]_vars

InitRS == IdlePipeline /\ InitRenderState /\ InitTranslate

SpecRenderState == InitRS /\ [][NextRS]_vars

InitT == IdlePipeline /\ InitRenderState /\ InitTranslate

SpecTranslate == InitT /\ [][NextT]_vars

(***************************************************************************)
(* Properties of Pipeline::run.                                            *)
(***************************************************************************)
\* The positions of the pipes of each level.
ShadingPaths == {<<i>> : i \in 1..Len(shading_commands)}

RenderPaths ==
  UNION {{<<i, j>> : j \in 1..Len(ShadingPipe(i).next.render_commands)} :
         i \in 1..Len(shading_commands)}

TessPaths ==
  UNION {{<<p[1], p[2], k>> : k \in 1..Len(RenderPipe(p[1], p[2]).next.tessellations)} :
         p \in RenderPaths}

\* Nested list order on the positions of drawables.
Before(p, q) ==
  \/ p[1] < q[1]
  \/ p[1] = q[1] /\ p[2] < q[2]
  \/ p[1] = q[1] /\ p[2] = q[2] /\ p[3] < q[3]

\* The calls of one kind, in the order they were made.
CallsOf(ops) == SelectSeq(calls, LAMBDA c : c.op \in ops)

Draws == CallsOf({"render"})

\* Every shading command has m render commands, each with k drawables.
Uniform(m, k) ==
  \A i \in 1..Len(shading_commands) :
    /\ Len(ShadingPipe(i).next.render_commands) = m
    /\ \A j \in 1..m : Len(RenderPipe(i, j).next.tessellations) = k

StepOp(path) ==
  CASE Len(path) = 1 -> "UseProgram"
    [] Len(path) = 2 -> "set_blending"
    [] Len(path) = 3 -> "render"

\* The code location of that step.
StepPc(path) ==
  CASE Len(path) = 1 -> "use_program"
    [] Len(path) = 2 -> "set_blending"
    [] Len(path) = 3 -> "render"

\* The position the cursors point at, for a pipe of the level of path.
Cursor(path) ==
  CASE Len(path) = 1 -> <<si>>
    [] Len(path) = 2 -> <<si, ri>>
    [] Len(path) = 3 -> <<si, ri, ti>>

\* The n-th call is followed at once by the bind/draw step of its own pipe.
StepFollows(n) ==
  IF n < Len(calls)
  THEN calls[n + 1].op = StepOp(calls[n].path) /\ calls[n + 1].path = calls[n].path
  ELSE pc = StepPc(calls[n].path) /\ Cursor(calls[n].path) = calls[n].path

\* Every pipe's closure has been called when the run is over, and never twice.
UpdatedOnce ==
  LET updates == CallsOf({"update_program"})
      pipes == ShadingPaths \cup RenderPaths \cup TessPaths
  IN /\ \A n \in 1..Len(updates) :
          /\ updates[n].path \in pipes
          /\ \A m \in 1..(n - 1) : updates[m].path # updates[n].path
     /\ pc = "done" => {updates[n].path : n \in 1..Len(updates)} = pipes

\* C2 as stated: every level's update runs exactly once, immediately before
\* its bind/draw step; a shading command's update runs before its program is
\* made the active program.
C2_UpdateBeforeStep ==
  /\ UpdatedOnce
  /\ \A n \in 1..Len(calls) :
       calls[n].op = "update_program" =>
         /\ StepFollows(n)
         /\ Len(calls[n].path) = 1 =>
              \A m \in 1..(n - 1) :
                ~(calls[m].op = "UseProgram" /\ calls[m].path = calls[n].path)

\* C2 amended: every level's update runs exactly once; a render command's
\* immediately before its blending and depth test are applied, a drawable's
\* immediately before its draw call, and a shading command's immediately
\* after its program was made the active program.
C2_UpdateOrder ==
  /\ UpdatedOnce
  /\ \A n \in 1..Len(calls) :
       calls[n].op = "update_program" =>
         IF Len(calls[n].path) = 1
         THEN /\ n > 1
              /\ calls[n - 1].op = "UseProgram"
              /\ calls[n - 1].path = calls[n].path
              /\ calls[n - 1].args = calls[n].args
         ELSE StepFollows(n)
  /\ \A n \in 1..Len(calls) :
       calls[n].op = "set_blending" =>
         /\ n < Len(calls) => /\ calls[n + 1].op = "set_depth_test"
                              /\ calls[n + 1].path = calls[n].path
         /\ n = Len(calls) => pc = "set_depth_test" /\ <<si, ri>> = calls[n].path

\* A finished run that called closures of all three levels.
C2_Witness ==
  /\ pc = "done"
  /\ \E l, m, n \in 1..Len(calls) :
       /\ calls[l].op = "update_program" /\ Len(calls[l].path) = 1
       /\ calls[m].op = "update_program" /\ Len(calls[m].path) = 2
       /\ calls[n].op = "update_program" /\ Len(calls[n].path) = 3

\* The device's fixed-function state is the one render_cmd configures.
Configured(render_cmd) ==
  /\ render_cmd.blending = None => ~gl.blend
  /\ render_cmd.blending # None =>
       /\ gl.blend
       /\ gl.blend_equation = opengl_blending_equation(render_cmd.blending[1][1])
       /\ gl.blend_func = <<opengl_blending_factor(render_cmd.blending[1][2]),
                            opengl_blending_factor(render_cmd.blending[1][3])>>
  /\ gl.depth_test <=> render_cmd.depth_test

\* C3: at every draw call the device's blending and depth-test state is that
\* of the render command owning the drawable, whatever ran before.
C3_StateAtDraw ==
  pc \in {"tess_update", "render"} => Configured(RenderPipe(si, ri).next)

\* A draw call of a render command without blending that follows a render
\* command with blending, and the converse.
C3_Witness ==
  /\ pc = "render"
  /\ ri = 2
  /\ RenderPipe(si, 1).next.blending # None
  /\ RenderPipe(si, 2).next.blending = None
  /\ RenderPipe(si, 1).next.depth_test # RenderPipe(si, 2).next.depth_test
  /\ Len(RenderPipe(si, 1).next.tessellations) > 0

TextureCalls == CallsOf({"ActiveTexture", "BindTexture"})

BufferCalls == CallsOf({"BindBufferBase"})

InPrologue == pc \in {"run", "viewport", "clear_color", "clear"}

\* C4: the i-th texture is bound to texture unit i and the j-th buffer to
\* uniform-buffer index j (0-based), once each and in list order; the units
\* and indices used are exactly 0..len-1.
C4_Bindings ==
  LET texture_calls == TextureCalls
      buffer_calls == BufferCalls
  IN /\ Len(texture_calls) <= 2 * Len(texture_set)
     /\ \A p \in 1..Len(texture_set) :
          2 * p <= Len(texture_calls) =>
            /\ texture_calls[2 * p - 1].op = "ActiveTexture"
            /\ texture_calls[2 * p - 1].args = <<"TEXTURE0", p - 1>>
            /\ texture_calls[2 * p].op = "BindTexture"
            /\ texture_calls[2 * p].args =
                 <<texture_set[p].target, texture_set[p].handle>>
            /\ <<p - 1, texture_set[p].target, texture_set[p].handle>> \in gl.textures
     /\ (~InPrologue /\ pc # "bind_texture") =>
          /\ Len(texture_calls) = 2 * Len(texture_set)
          /\ {texture_calls[2 * p - 1].args[2] : p \in 1..Len(texture_set)}
               = 0..(Len(texture_set) - 1)
     /\ Len(buffer_calls) <= Len(buffer_set)
     /\ \A p \in 1..Len(buffer_calls) :
          /\ p <= Len(buffer_set)
          /\ buffer_calls[p].args = <<"UNIFORM_BUFFER", p - 1, buffer_set[p].handle>>
          /\ <<p - 1, buffer_set[p].handle>> \in gl.uniform_buffers
     /\ (~InPrologue /\ pc \notin {"bind_texture", "bind_buffer"}) =>
          /\ Len(buffer_calls) = Len(buffer_set)
          /\ {buffer_calls[p].args[2] : p \in 1..Len(buffer_set)}
               = 0..(Len(buffer_set) - 1)

\* A finished run that bound two different textures and two different buffers.
C4_Witness ==
  /\ pc = "done"
  /\ Len(texture_set) = 2 /\ texture_set[1] # texture_set[2]
  /\ Len(buffer_set) = 2 /\ buffer_set[1] # buffer_set[2]

\* The place of a call in the order of run.
Rank(op) ==
  CASE op = "BindFramebuffer" -> 1
    [] op = "Viewport" -> 2
    [] op = "ClearColor" -> 3
    [] op = "Clear" -> 4
    [] op \in {"ActiveTexture", "BindTexture"} -> 5
    [] op = "BindBufferBase" -> 6
    [] OTHER -> 7

\* C5: every run, also of an empty shading_commands list, binds the
\* framebuffer, sets the viewport to its full extent at (0,0), clears color
\* and depth with clear_color, binds all textures, binds all buffers, in this
\* order and once each, before any program bind, update or draw; with no
\* shading command nothing follows.
C5_Prologue ==
  /\ \A n \in 2..Len(calls) :
       /\ Rank(calls[n - 1].op) <= Rank(calls[n].op)
       /\ Rank(calls[n - 1].op) <= 4 => Rank(calls[n - 1].op) < Rank(calls[n].op)
  /\ Len(calls) >= 1 =>
       calls[1] = Call("BindFramebuffer", << >>, <<"FRAMEBUFFER", framebuffer.handle>>)
  /\ Len(calls) >= 2 =>
       calls[2] = Call("Viewport", << >>,
                       <<0, 0, framebuffer.width, framebuffer.height>>)
  /\ Len(calls) >= 3 => calls[3] = Call("ClearColor", << >>, clear_color)
  /\ Len(calls) >= 4 =>
       calls[4] = Call("Clear", << >>, {"COLOR_BUFFER_BIT", "DEPTH_BUFFER_BIT"})
  /\ ~InPrologue =>
       /\ Len(calls) >= 4
       /\ gl.framebuffer = framebuffer.handle
       /\ gl.viewport = <<0, 0, framebuffer.width, framebuffer.height>>
       /\ gl.color_buffer = Some(clear_color)
       /\ gl.depth_buffer # None
  /\ pc \notin {"run", "viewport", "clear_color", "clear", "bind_texture", "bind_buffer"} =>
       /\ Len(TextureCalls) = 2 * Len(texture_set)
       /\ Len(BufferCalls) = Len(buffer_set)
  /\ (pc = "done" /\ shading_commands = << >>) =>
       /\ Len(calls) = 4 + 2 * Len(texture_set) + Len(buffer_set)
       /\ \A n \in 1..Len(calls) : Rank(calls[n].op) < 7

\* A finished run of a pipeline with textures and buffers and no shading command.
C5_Witness ==
  /\ pc = "done"
  /\ shading_commands = << >>
  /\ texture_set # << >>
  /\ buffer_set # << >>

\* C10: at every draw call and at every render-command and drawable update,
\* the active program is the program of the enclosing shading command, and it
\* is the program passed to the closure.
C10_ActiveProgram ==
  /\ pc \in {"render_update", "set_blending", "set_depth_test", "tess_update", "render"} =>
       gl.program = ProgramOf(si).handle
  /\ \A n \in 1..Len(calls) :
       (calls[n].op = "update_program" /\ Len(calls[n].path) >= 2
        /\ calls[n].path[1] \in 1..Len(shading_commands)) =>
         calls[n].args = <<ProgramOf(calls[n].path[1]).handle>>

\* A draw call under the second shading command, whose program differs from
\* the first's, the first having no render command.
C10_Witness ==
  /\ pc = "render"
  /\ si = 2
  /\ ProgramOf(1) # ProgramOf(2)
  /\ ShadingPipe(1).next.render_commands = << >>

(***************************************************************************)
(* Properties of RenderState.                                              *)
(***************************************************************************)
\* The fields other than field are those of the value the mutator took.
OthersKept(field) ==
  \A f \in {"blending", "depth_test", "depth_write", "face_culling"} \ {field} :
    state[f] = last.self[f]

C7_Default ==
  /\ last.op = "default" =>
       /\ RS_blending(state) = None
       /\ RS_depth_test(state) = Some("Less")
       /\ RS_depth_write(state) = "On"
       /\ RS_face_culling(state) = None
  /\ (/\ last.op # "default"
      /\ RS_blending(state) = None
      /\ RS_depth_test(state) = Some("Less")
      /\ RS_depth_write(state) = "On"
      /\ RS_face_culling(state) = None) => state = RenderStateDefault

\* default() called after another state was built.
C7_Witness ==
  /\ last.op = "default"
  /\ last.self.depth_test # Some("Less")
  /\ last.self.blending # None

\* C8: after set_blending_separate(rgb, alpha), blending() is Some of the
\* separate mode carrying rgb and alpha, also when rgb = alpha; it is never
\* None and never a value set_blending produces.
C8_Separate ==
  last.op = "set_blending_separate" =>
    /\ RS_blending(state) # None
    /\ RS_blending(state) = Some([variant |-> "Separate", rgb |-> last.arg[1],
                                  alpha |-> last.arg[2]])
    /\ \A b \in Option(Blending) :
         RS_blending(state) # RS_blending(RS_set_blending(last.self, b))

\* set_blending_separate called with rgb = alpha.
C8_Witness ==
  /\ last.op = "set_blending_separate"
  /\ last.arg[1] = last.arg[2]
  /\ last.self.blending # None

(***************************************************************************)
(* Properties of the translation functions.                                *)
(***************************************************************************)
\* Each variant has one constant and no two variants share a constant.
OneToOne(table) ==
  \A p \in table, q \in table : (p[1] = q[1]) <=> (p[2] = q[2])

\* C9 as stated: the translations are total and one-to-one over the five
\* equations and the ten blending factors.
C9_TenFactors ==
  /\ OneToOne(equations) /\ OneToOne(factors)
  /\ Cardinality({p[1] : p \in equations}) <= 5
  /\ Cardinality({p[1] : p \in factors}) <= 10

\* C9 amended: the translations are total and one-to-one over the five
\* equations and the eleven blending factors.
C9_Translation ==
  /\ OneToOne(equations) /\ OneToOne(factors)
  /\ Cardinality({p[1] : p \in equations}) <= 5
  /\ Cardinality({p[1] : p \in factors}) <= 11
  /\ Cardinality({p[2] : p \in equations}) = Cardinality(equations)
  /\ Cardinality({p[2] : p \in factors}) = Cardinality(factors)

\* Every variant of both enumerations has been translated.
C9_Witness ==
  /\ {p[1] : p \in equations} = Equation
  /\ {p[1] : p \in factors} = Factor
  /\ Cardinality(equations) = 5
  /\ Cardinality(factors) = 11

====
